---- MODULE Spec2Model ----
(***************************************************************************)
(* Model of the bootstrap kit: the EnvManager singleton (utils/            *)
(* env_manager.py), the LoggingWrapper (utils/logging_wrapper.py) and      *)
(* PathSetup (utils/path_setup.py).                                        *)
(***************************************************************************)
EXTENDS Integers, Sequences, FiniteSets, TLC

\* ------------------------------------------------------------------ bounds
MaxOps == 3          \* EnvManager operations in one sequential run
MaxLogOps == 4       \* LoggingWrapper constructions and logging calls
MaxPathOps == 3      \* PathSetup calls and foreign sys.path insertions
MaxPathLen == 2      \* length of the initial sys.path

\* ------------------------------------------------------------ value spaces
None == "None"                       \* Python None (no value)
NoObject == 0                        \* EnvManager._instance = None
Keys == {"K1", "K2"}                 \* environment variable names
Vals == {"v1", "v2"}                 \* environment variable values
Paths == {".env", "alt.env"}         \* '.env' is the default file_path
DefaultPath == ".env"
Threads == {"t1", "t2"}
LoggerNames == {"app", "app.db"}     \* dotted names: "app" is the parent
DEBUG == 10
INFO == 20
ERROR == 40
Levels == {DEBUG, INFO, ERROR}
\* directories as component sequences
ModuleFile == <<"proj", "utils", "path_setup.py">>     \* __file__, absolute
Dirs == { <<"proj">>, <<"proj", "utils">>, <<"site">> }

EmptyVars == [k \in Keys |-> None]
\* os.environ at process start: K1 unset or already set, K2 unset
InheritedEnvs == { [k \in Keys |-> IF k = "K1" THEN v ELSE None] :
                     v \in {None, "v2"} }
\* what a path can hold: nothing, something the loader chokes on, or
\* KEY=VALUE lines (vars[k] = None: the file has no line for k)
FileStates ==
    { [kind |-> "absent", vars |-> EmptyVars],
      [kind |-> "bad",    vars |-> EmptyVars],
      [kind |-> "ok",     vars |-> EmptyVars],
      [kind |-> "ok",     vars |-> [k \in Keys |-> IF k = "K1" THEN "v1" ELSE None]],
      [kind |-> "ok",     vars |-> [k \in Keys |-> IF k = "K1" THEN "v2" ELSE "v1"]] }

VARIABLES
    instance,     \* EnvManager._instance: NoObject or the object's identity
    env_loaded,   \* EnvManager._env_loaded
    objects,      \* number of EnvManager objects allocated so far
    environ,      \* os.environ restricted to Keys
    files,        \* the file system: what each path holds
    attempts,     \* number of load_dotenv calls started
    loads,        \* number of load_dotenv calls that returned
    returned,     \* identities handed back by EnvManager(...), in order
    environ0,     \* os.environ at process start
    firstLoad,    \* result of the first load_dotenv call that returned
    last,         \* the last EnvManager operation and what it observed
    opCount,      \* EnvManager operations so far
    pc, targ, tself, tseen, texc,   \* threads: position, argument, locals
    handlers, hcount, built, emitted, logOps,   \* logging registry
    sys_path, calls, rootAbsent0, pathOps   \* module search path

envVars == <<instance, env_loaded, objects, environ, files, attempts, loads,
             returned, environ0, firstLoad, last, opCount>>
thrVars == <<pc, targ, tself, tseen, texc>>
logVars == <<handlers, hcount, built, emitted, logOps>>
pathVars == <<sys_path, calls, rootAbsent0, pathOps>>
vars == <<envVars, thrVars, logVars, pathVars>>

\* ------------------------------------------------- what the other parts hold
\* (each specification below drives one component and leaves the rest idle)
IdleLast == [op |-> "none", hasArg |-> FALSE, path |-> DefaultPath,
             fresh |-> FALSE, wasLoaded |-> FALSE, file |-> "absent",
             fileVars |-> EmptyVars, called |-> FALSE, exc |-> None,
             ret |-> None, obj |-> NoObject, log |-> <<>>,
             name |-> "K1", default |-> None, wasUnset |-> FALSE]

\* ------------------------------------------------------------- EnvManager
\* dotenv.load_dotenv(file_path), override=False: a missing file yields no
\* variables, a file it cannot read or decode raises, otherwise every variable
\* of the file that is not already in os.environ is set; the result is truthy
\* exactly when the file defines at least one variable.
load_dotenv(file_path, fs, env) ==
    LET f == fs[file_path] IN
    IF f.kind = "bad"
    THEN [raised |-> TRUE, ret |-> FALSE, environ |-> env]
    ELSE [raised |-> FALSE,
          ret |-> \E k \in Keys : f.vars[k] # None,
          environ |-> [k \in Keys |->
                         IF env[k] = None THEN f.vars[k] ELSE env[k]]]

\* os.getenv(name, default)
os_getenv(env, name, default) ==
    IF env[name] # None THEN env[name] ELSE default

\* object.__new__(cls, *args): raises TypeError when handed extra arguments
\* by a class that overrides __new__
object_new(nobj, hasArgs) ==
    IF hasArgs
    THEN [raised |-> TRUE, obj |-> NoObject, objects |-> nobj]
    ELSE [raised |-> FALSE, obj |-> nobj + 1, objects |-> nobj + 1]

\* __new__ without the `if not cls._instance` test
EnvManager_new_always_allocates(inst, nobj, hasArgs) ==
    LET o == object_new(nobj, hasArgs) IN
    [raised |-> o.raised,
     instance |-> IF o.raised THEN inst ELSE o.obj,
     objects |-> o.objects]

\* EnvManager.__new__(cls, *args, **kwargs)
EnvManager_new(inst, nobj, hasArgs) ==
    IF inst = NoObject
    THEN LET o == object_new(nobj, hasArgs) IN
         [raised |-> o.raised,
          instance |-> IF o.raised THEN inst ELSE o.obj,
          objects |-> o.objects]
    ELSE [raised |-> FALSE, instance |-> inst, objects |-> nobj]

Untouched(loaded, env) ==
    [env_loaded |-> loaded, environ |-> env, called |-> FALSE,
     completed |-> FALSE, ret |-> FALSE, log |-> <<>>, exc |-> None]

\* load_env that forgets `EnvManager._env_loaded = True`
load_env_never_marks(file_path, loaded, fs, env) ==
    IF ~loaded
    THEN LET r == load_dotenv(file_path, fs, env) IN
         IF r.raised
         THEN [env_loaded |-> loaded, environ |-> r.environ, called |-> TRUE,
               completed |-> FALSE, ret |-> FALSE,
               log |-> <<"ERROR">>, exc |-> "RuntimeError"]
         ELSE [env_loaded |-> loaded, environ |-> r.environ, called |-> TRUE,
               completed |-> TRUE, ret |-> r.ret,
               log |-> IF r.ret THEN <<"INFO">> ELSE <<"WARNING">>,
               exc |-> None]
    ELSE Untouched(loaded, env)

\* load_env without the `if not EnvManager._env_loaded` test
load_env_unguarded(file_path, loaded, fs, env) ==
    LET r == load_dotenv(file_path, fs, env) IN
    IF r.raised
    THEN [env_loaded |-> loaded, environ |-> r.environ, called |-> TRUE,
          completed |-> FALSE, ret |-> FALSE,
          log |-> <<"ERROR">>, exc |-> "RuntimeError"]
    ELSE [env_loaded |-> TRUE, environ |-> r.environ, called |-> TRUE,
          completed |-> TRUE, ret |-> r.ret,
          log |-> IF r.ret THEN <<"INFO">> ELSE <<"WARNING">>,
          exc |-> None]

\* load_env that sets the flag in a `finally`, so also when the loader raised
load_env_marks_on_error(file_path, loaded, fs, env) ==
    IF ~loaded
    THEN LET r == load_dotenv(file_path, fs, env) IN
         IF r.raised
         THEN [env_loaded |-> TRUE, environ |-> r.environ, called |-> TRUE,
               completed |-> FALSE, ret |-> FALSE,
               log |-> <<"ERROR">>, exc |-> "RuntimeError"]
         ELSE [env_loaded |-> TRUE, environ |-> r.environ, called |-> TRUE,
               completed |-> TRUE, ret |-> r.ret,
               log |-> IF r.ret THEN <<"INFO">> ELSE <<"WARNING">>,
               exc |-> None]
    ELSE Untouched(loaded, env)

\* load_env that sets the flag inside the `if load_dotenv(...)` branch only
load_env_marks_on_success_only(file_path, loaded, fs, env) ==
    IF ~loaded
    THEN LET r == load_dotenv(file_path, fs, env) IN
         IF r.raised
         THEN [env_loaded |-> loaded, environ |-> r.environ, called |-> TRUE,
               completed |-> FALSE, ret |-> FALSE,
               log |-> <<"ERROR">>, exc |-> "RuntimeError"]
         ELSE [env_loaded |-> r.ret, environ |-> r.environ, called |-> TRUE,
               completed |-> TRUE, ret |-> r.ret,
               log |-> IF r.ret THEN <<"INFO">> ELSE <<"WARNING">>,
               exc |-> None]
    ELSE Untouched(loaded, env)

\* EnvManager.load_env(self, file_path)
load_env(file_path, loaded, fs, env) ==
    IF ~loaded
    THEN LET r == load_dotenv(file_path, fs, env) IN
         IF r.raised
         THEN [env_loaded |-> loaded, environ |-> r.environ, called |-> TRUE,
               completed |-> FALSE, ret |-> FALSE,
               log |-> <<"ERROR">>, exc |-> "RuntimeError"]
         ELSE [env_loaded |-> TRUE, environ |-> r.environ, called |-> TRUE,
               completed |-> TRUE, ret |-> r.ret,
               log |-> IF r.ret THEN <<"INFO">> ELSE <<"WARNING">>,
               exc |-> None]
    ELSE Untouched(loaded, env)

\* EnvManager.__init__(self, file_path='.env')
EnvManager_init(file_path, loaded, fs, env) ==
    IF ~loaded THEN load_env(file_path, loaded, fs, env)
               ELSE Untouched(loaded, env)

\* EnvManager.get_env_variable(name, default=None)
get_env_variable(env, name, default) ==
    LET value == os_getenv(env, name, default) IN
    [ret |-> value,
     log |-> IF value = None THEN <<"WARNING">> ELSE <<>>]

\* bookkeeping shared by the two operations that can reach load_dotenv
ApplyLoad(r) ==
    /\ env_loaded' = r.env_loaded
    /\ environ' = r.environ
    /\ attempts' = attempts + (IF r.called THEN 1 ELSE 0)
    /\ loads' = loads + (IF r.completed THEN 1 ELSE 0)
    /\ firstLoad' = IF r.completed /\ loads = 0
                    THEN (IF r.ret THEN "vars" ELSE "nothing")
                    ELSE firstLoad

Observed(op, hasArg, path) ==
    [IdleLast EXCEPT !.op = op, !.hasArg = hasArg, !.path = path,
                     !.fresh = (instance = NoObject /\ ~env_loaded),
                     !.wasLoaded = env_loaded,
                     !.file = files[path].kind,
                     !.fileVars = files[path].vars]

\* EnvManager() or EnvManager(file_path): __new__, then __init__ on what it
\* returned
Construct(hasArg, file_path) ==
    /\ opCount < MaxOps
    /\ opCount' = opCount + 1
    /\ LET n == EnvManager_new(instance, objects, hasArg) IN
       IF n.raised
       THEN /\ last' = [Observed("construct", hasArg, file_path)
                           EXCEPT !.exc = "TypeError"]
            /\ UNCHANGED <<instance, env_loaded, objects, environ, attempts,
                           loads, returned, firstLoad>>
       ELSE LET r == EnvManager_init(file_path, env_loaded, files, environ) IN
            /\ instance' = n.instance
            /\ objects' = n.objects
            /\ ApplyLoad(r)
            /\ returned' = IF r.exc = None THEN Append(returned, n.instance)
                                           ELSE returned
            /\ last' = [Observed("construct", hasArg, file_path)
                           EXCEPT !.called = r.called, !.exc = r.exc,
                                  !.log = r.log,
                                  !.obj = IF r.exc = None THEN n.instance
                                                          ELSE NoObject]
    /\ UNCHANGED <<files, environ0>>

\* EnvManager._instance.load_env(file_path), on the instance once it exists
LoadEnv(file_path) ==
    /\ opCount < MaxOps
    /\ instance # NoObject
    /\ opCount' = opCount + 1
    /\ LET r == load_env(file_path, env_loaded, files, environ) IN
       /\ ApplyLoad(r)
       /\ last' = [Observed("load_env", TRUE, file_path)
                      EXCEPT !.called = r.called, !.exc = r.exc, !.log = r.log]
    /\ UNCHANGED <<instance, objects, returned, files, environ0>>

\* EnvManager.get_env_variable(name, default)
GetEnvVariable(name, default) ==
    /\ opCount < MaxOps
    /\ opCount' = opCount + 1
    /\ LET g == get_env_variable(environ, name, default) IN
       last' = [Observed("get_env_variable", FALSE, DefaultPath)
                   EXCEPT !.name = name, !.default = default,
                          !.wasUnset = (environ[name] = None),
                          !.ret = g.ret, !.log = g.log]
    /\ UNCHANGED <<instance, env_loaded, objects, environ, files, attempts,
                   loads, returned, environ0, firstLoad>>

\* somebody rewrites, creates or removes an env file between two operations
WriteFile(file_path, f) ==
    /\ files[file_path] # f
    /\ files' = [files EXCEPT ![file_path] = f]
    /\ UNCHANGED <<instance, env_loaded, objects, environ, attempts, loads,
                   returned, environ0, firstLoad, last, opCount>>

IdleEnv ==
    /\ instance = NoObject /\ env_loaded = FALSE /\ objects = 0
    /\ attempts = 0 /\ loads = 0 /\ returned = <<>> /\ firstLoad = "none"
    /\ last = IdleLast /\ opCount = 0
IdleThreads ==
    /\ pc = [t \in Threads |-> "idle"]
    /\ targ = [t \in Threads |-> [hasArg |-> FALSE, path |-> DefaultPath]]
    /\ tself = [t \in Threads |-> NoObject]
    /\ tseen = [t \in Threads |-> "unread"]
    /\ texc = [t \in Threads |-> None]
IdleLog ==
    /\ handlers = [n \in LoggerNames |-> <<>>]
    /\ hcount = 0
    /\ built = [n \in LoggerNames |-> 0]
    /\ emitted = [name |-> "none", levelno |-> 0, lines |-> <<>>]
    /\ logOps = 0
IdlePath ==
    /\ sys_path = <<>> /\ calls = 0 /\ rootAbsent0 = FALSE /\ pathOps = 0

\* a fresh process: class attributes as the class body sets them, any
\* inherited environment, any files on disk
Init ==
    /\ IdleEnv
    /\ environ \in InheritedEnvs
    /\ environ0 = environ
    /\ files \in [Paths -> FileStates]
    /\ IdleThreads /\ IdleLog /\ IdlePath

Next ==
    \/ \E hasArg \in BOOLEAN, p \in Paths :
          /\ (hasArg \/ p = DefaultPath)
          /\ Construct(hasArg, p)
          /\ UNCHANGED <<thrVars, logVars, pathVars>>
    \/ \E p \in Paths :
          LoadEnv(p) /\ UNCHANGED <<thrVars, logVars, pathVars>>
    \/ \E name \in Keys, default \in Vals \cup {None} :
          GetEnvVariable(name, default)
          /\ UNCHANGED <<thrVars, logVars, pathVars>>
    \/ \E p \in Paths, f \in FileStates :
          WriteFile(p, f) /\ UNCHANGED <<thrVars, logVars, pathVars>>

Spec == Init /\ [][Next]_vars

\* ------------------------------------------------ claims about EnvManager
LoadOps == {"construct", "load_env"}
DefinesVars(fv) == \E k \in Keys : fv[k] # None

\* C1: in any sequence of constructions and load_env calls, with any paths,
\* the environment-file load is carried out (load_dotenv returns) at most
\* once, and it has been carried out exactly when the flag is set.
C1_LoadAtMostOnce ==
    /\ loads <= 1
    /\ env_loaded <=> (loads = 1)

\* a load was carried out, and a later construction/load_env with the other
\* path, which holds variables, has run
C1_Witness ==
    /\ loads = 1
    /\ last.op \in LoadOps /\ last.wasLoaded
    /\ last.path = "alt.env" /\ last.file = "ok" /\ DefinesVars(last.fileVars)

\* C2: every object a construction hands back, with or without a path
\* argument and whatever the load did, is the one stored in _instance; at
\* most one EnvManager object is ever allocated.
C2_SingleInstance ==
    /\ objects <= 1
    /\ \A i \in DOMAIN returned : returned[i] = instance /\ instance # NoObject

\* two constructions returned, the last one with a path argument
C2_Witness ==
    /\ Len(returned) >= 2
    /\ last.op = "construct" /\ last.hasArg /\ last.exc = None
    /\ last.obj = returned[1]

\* C3: once _env_loaded is set, no step resets it, calls the loader again or
\* changes os.environ, whatever the files hold by then.
C3_LoadedIsTerminal ==
    [][env_loaded =>
          /\ env_loaded'
          /\ environ' = environ
          /\ attempts' = attempts]_vars

\* K1=v1 came from a file; later a construction named a file that holds
\* K1=v2 and K1 still reads v1
C3_Witness ==
    /\ env_loaded /\ last.op = "construct" /\ last.wasLoaded
    /\ environ0["K1"] = None /\ environ["K1"] = "v1"
    /\ last.file = "ok" /\ last.fileVars["K1"] = "v2"
    /\ os_getenv(environ, "K1", None) = "v1"

\* C4: from a fresh process, the first construction with the path of a valid
\* file holding K=V completes without error and a lookup of K then gives V.
C4_FirstConstructionWithPathLoads ==
    (/\ last.op = "construct" /\ last.fresh /\ last.hasArg
     /\ last.file = "ok" /\ DefinesVars(last.fileVars))
    => /\ last.exc = None
       /\ \A k \in Keys :
             last.fileVars[k] # None
                => os_getenv(environ, k, None) = last.fileVars[k]

\* C5: for a name unset in os.environ and a default other than None,
\* get_env_variable(name, default) returns the default and logs a warning.
C5_DefaultReturnedWithWarning ==
    (/\ last.op = "get_env_variable" /\ last.wasUnset
     /\ last.default # None)
    => /\ last.ret = last.default
       /\ last.log = <<"WARNING">>

\* C8: a load_env that runs in state UNLOADED and whose loader raises logs an
\* error, fails with RuntimeError and leaves the flag unset; the next
\* load_env call or construction calls the loader again.
C8_FailedLoadIsRetried ==
    /\ []((last.op \in LoadOps /\ last.called /\ last.file = "bad")
            => /\ last.exc = "RuntimeError"
               /\ last.log = <<"ERROR">>
               /\ ~last.wasLoaded
               /\ ~env_loaded)
    /\ [][(/\ last.exc = "RuntimeError"
           /\ opCount' = opCount + 1
           /\ last'.op \in LoadOps)
          => /\ last'.called
             /\ attempts' = attempts + 1]_vars

\* a first attempt raised and a later construction with a path argument
\* called the loader again, this time to completion
C8_Witness ==
    /\ attempts = 2 /\ loads = 1
    /\ last.op = "construct" /\ last.hasArg /\ last.called
    /\ last.exc = None

\* C9: a first load attempt that finds the file absent or without variables
\* logs a warning, raises nothing and sets the flag; from then on no file,
\* however valid, contributes anything to os.environ.
C9_EmptyFirstLoadIsFinal ==
    /\ (/\ last.op \in LoadOps /\ last.called
        /\ (last.file = "absent"
              \/ (last.file = "ok" /\ ~DefinesVars(last.fileVars))))
       => /\ last.exc = None
          /\ last.log = <<"WARNING">>
          /\ env_loaded
    /\ (firstLoad = "nothing")
       => /\ env_loaded
          /\ loads = 1
          /\ environ = environ0

\* the first load found nothing; a later construction named a valid file
\* that sets K1, and K1 is still unset
C9_Witness ==
    /\ firstLoad = "nothing"
    /\ last.op = "construct" /\ last.hasArg /\ last.exc = None
    /\ last.file = "ok" /\ last.fileVars["K1"] = "v1"
    /\ environ["K1"] = None

\* ------------------------------------- EnvManager(...) from two threads
\* Each thread runs one construction; a step is one read or write of a class
\* attribute, or one call, and the interpreter may switch threads between
\* any two of them.
Go(t, label) == pc' = [pc EXCEPT ![t] = label]

\* __new__: `if not cls._instance`
TNewTest(t) ==
    /\ pc[t] = "new_test"
    /\ Go(t, IF instance = NoObject THEN "new_alloc" ELSE "new_return")
    /\ UNCHANGED <<envVars, targ, tself, tseen, texc>>

\* __new__: `super(EnvManager, cls).__new__(cls, *args, **kwargs)`
TNewAlloc(t) ==
    /\ pc[t] = "new_alloc"
    /\ LET o == object_new(objects, targ[t].hasArg) IN
       IF o.raised
       THEN /\ texc' = [texc EXCEPT ![t] = "TypeError"]
            /\ Go(t, "done")
            /\ UNCHANGED <<objects, tself>>
       ELSE /\ objects' = o.objects
            /\ tself' = [tself EXCEPT ![t] = o.obj]
            /\ Go(t, "new_store")
            /\ UNCHANGED texc
    /\ UNCHANGED <<instance, env_loaded, environ, files, attempts, loads,
                   returned, environ0, firstLoad, last, opCount, targ, tseen>>

\* __new__: `cls._instance = ...`
TNewStore(t) ==
    /\ pc[t] = "new_store"
    /\ instance' = tself[t]
    /\ Go(t, "new_return")
    /\ UNCHANGED <<env_loaded, objects, environ, files, attempts, loads,
                   returned, environ0, firstLoad, last, opCount,
                   targ, tself, tseen, texc>>

\* __new__: `return cls._instance`
TNewReturn(t) ==
    /\ pc[t] = "new_return"
    /\ tself' = [tself EXCEPT ![t] = instance]
    /\ Go(t, "init_test")
    /\ UNCHANGED <<envVars, targ, tseen, texc>>

\* __init__: `if not self._env_loaded`
TInitTest(t) ==
    /\ pc[t] = "init_test"
    /\ IF ~env_loaded
       THEN /\ Go(t, "load_test")
            /\ UNCHANGED returned
       ELSE /\ Go(t, "done")
            /\ returned' = Append(returned, tself[t])
    /\ UNCHANGED <<instance, env_loaded, objects, environ, files, attempts,
                   loads, environ0, firstLoad, last, opCount,
                   targ, tself, tseen, texc>>

\* load_env with the flag test dropped: the load goes ahead whatever was read
TLoadTest_unguarded(t) ==
    /\ pc[t] = "load_test"
    /\ tseen' = [tseen EXCEPT ![t] = IF env_loaded THEN "loaded"
                                                     ELSE "unloaded"]
    /\ Go(t, "load_dotenv")
    /\ UNCHANGED <<envVars, targ, tself, texc>>

\* load_env: `if not EnvManager._env_loaded`
TLoadTest(t) ==
    /\ pc[t] = "load_test"
    /\ tseen' = [tseen EXCEPT ![t] = IF env_loaded THEN "loaded"
                                                     ELSE "unloaded"]
    /\ IF ~env_loaded
       THEN /\ Go(t, "load_dotenv")
            /\ UNCHANGED returned
       ELSE /\ Go(t, "done")
            /\ returned' = Append(returned, tself[t])
    /\ UNCHANGED <<instance, env_loaded, objects, environ, files, attempts,
                   loads, environ0, firstLoad, last, opCount,
                   targ, tself, texc>>

\* load_env: `load_dotenv(file_path)` and the logger call that follows it
TLoadDotenv(t) ==
    /\ pc[t] = "load_dotenv"
    /\ LET r == load_dotenv(targ[t].path, files, environ) IN
       /\ environ' = r.environ
       /\ attempts' = attempts + 1
       /\ IF r.raised
          THEN /\ texc' = [texc EXCEPT ![t] = "RuntimeError"]
               /\ Go(t, "done")
               /\ UNCHANGED <<loads, firstLoad>>
          ELSE /\ loads' = loads + 1
               /\ firstLoad' = IF loads = 0
                               THEN (IF r.ret THEN "vars" ELSE "nothing")
                               ELSE firstLoad
               /\ Go(t, "set_flag")
               /\ UNCHANGED texc
    /\ UNCHANGED <<instance, env_loaded, objects, files, returned, environ0,
                   last, opCount, targ, tself, tseen>>

\* load_env: `EnvManager._env_loaded = True`, then EnvManager(...) returns
TSetFlag(t) ==
    /\ pc[t] = "set_flag"
    /\ env_loaded' = TRUE
    /\ returned' = Append(returned, tself[t])
    /\ Go(t, "done")
    /\ UNCHANGED <<instance, objects, environ, files, attempts, loads,
                   environ0, firstLoad, last, opCount,
                   targ, tself, tseen, texc>>

ThreadArgs == { [hasArg |-> FALSE, path |-> DefaultPath] }
                 \cup { [hasArg |-> TRUE, path |-> p] : p \in Paths }

InitThreads ==
    /\ IdleEnv
    /\ environ \in InheritedEnvs
    /\ environ0 = environ
    /\ files \in [Paths -> FileStates]
    /\ pc = [t \in Threads |-> "new_test"]
    /\ targ \in [Threads -> ThreadArgs]
    /\ tself = [t \in Threads |-> NoObject]
    /\ tseen = [t \in Threads |-> "unread"]
    /\ texc = [t \in Threads |-> None]
    /\ IdleLog /\ IdlePath

IdleRest == UNCHANGED <<logVars, pathVars>>

NextThreads ==
    \/ \E t \in Threads : TNewTest(t) /\ IdleRest
    \/ \E t \in Threads : TNewAlloc(t) /\ IdleRest
    \/ \E t \in Threads : TNewStore(t) /\ IdleRest
    \/ \E t \in Threads : TNewReturn(t) /\ IdleRest
    \/ \E t \in Threads : TInitTest(t) /\ IdleRest
    \/ \E t \in Threads : TLoadTest(t) /\ IdleRest
    \/ \E t \in Threads : TLoadDotenv(t) /\ IdleRest
    \/ \E t \in Threads : TSetFlag(t) /\ IdleRest

SpecThreads == InitThreads /\ [][NextThreads]_vars

\* C10: with two threads constructing EnvManager at once, the test of the
\* flag is the only gate before the load and the flag is set only after the
\* load, so each thread that read the flag as unset goes on to call the
\* loader: the number of loader calls equals the number of threads past the
\* call, and every one of them had passed the test.
Loading == {"load_dotenv", "set_flag"}
PastCall(t) == tseen[t] = "unloaded" /\ pc[t] \in {"set_flag", "done"}
C10_EveryPassedTestLoads ==
    /\ \A t \in Threads : pc[t] \in Loading => tseen[t] = "unloaded"
    /\ attempts = Cardinality({t \in Threads : PastCall(t)})
    /\ loads <= attempts

\* both threads passed the test and the file was loaded twice
C10_Witness ==
    /\ \A t \in Threads : pc[t] = "done" /\ tseen[t] = "unloaded"
                          /\ texc[t] = None
    /\ attempts = 2 /\ loads = 2

\* ---------------------------------------------------------- LoggingWrapper
\* __init__ that attaches its two handlers without looking at logger.handlers
LoggingWrapper_init_always_attaches(hs, n, name, log_level, console_level) ==
    LET fh == [id |-> n + 1, kind |-> "file", level |-> log_level]
        ch == [id |-> n + 2, kind |-> "console", level |-> console_level]
    IN  [hcount |-> n + 2,
         handlers |-> [hs EXCEPT ![name] = hs[name] \o <<fh, ch>>]]

\* LoggingWrapper.__init__(name, log_dir, log_level, console_level, ...):
\* both handlers are created every time, attached only to a bare logger
LoggingWrapper_init(hs, n, name, log_level, console_level) ==
    LET fh == [id |-> n + 1, kind |-> "file", level |-> log_level]
        ch == [id |-> n + 2, kind |-> "console", level |-> console_level]
    IN  [hcount |-> n + 2,
         handlers |-> IF hs[name] = <<>>
                      THEN [hs EXCEPT ![name] = <<fh, ch>>]
                      ELSE hs]

\* the logger and its ancestors, nearest first (records propagate upwards)
Lineage(name) == IF name = "app.db" THEN <<"app.db", "app">> ELSE <<name>>

RECURSIVE Flatten(_)
Flatten(ss) == IF ss = <<>> THEN <<>> ELSE Head(ss) \o Flatten(Tail(ss))

\* Logger.callHandlers: every handler on the lineage whose level admits the
\* record emits one line
callHandlers(hs, name, levelno) ==
    LET all == Flatten([i \in DOMAIN Lineage(name) |-> hs[Lineage(name)[i]]])
        Admits(h) == levelno >= h.level
    IN  SelectSeq(all, Admits)

\* LoggingWrapper(name, log_level=..., console_level=...)
NewWrapper(name, log_level, console_level) ==
    /\ logOps < MaxLogOps
    /\ logOps' = logOps + 1
    /\ LET r == LoggingWrapper_init(handlers, hcount, name,
                                    log_level, console_level) IN
       /\ handlers' = r.handlers
       /\ hcount' = r.hcount
    /\ built' = [built EXCEPT ![name] = @ + 1]
    /\ UNCHANGED emitted

\* wrapper.debug / wrapper.info / wrapper.error on a wrapper built for name
LogCall(name, levelno) ==
    /\ logOps < MaxLogOps
    /\ built[name] >= 1
    /\ logOps' = logOps + 1
    /\ emitted' = [name |-> name, levelno |-> levelno,
                   lines |-> callHandlers(handlers, name, levelno)]
    /\ UNCHANGED <<handlers, hcount, built>>

InitLog ==
    /\ IdleEnv
    /\ environ = EmptyVars /\ environ0 = environ
    /\ files = [p \in Paths |-> [kind |-> "absent", vars |-> EmptyVars]]
    /\ IdleThreads /\ IdleLog /\ IdlePath

NextLog ==
    \/ \E name \in LoggerNames, log_level \in Levels,
          console_level \in {DEBUG, ERROR} :
          NewWrapper(name, log_level, console_level)
          /\ UNCHANGED <<envVars, thrVars, pathVars>>
    \/ \E name \in LoggerNames, levelno \in Levels :
          LogCall(name, levelno)
          /\ UNCHANGED <<envVars, thrVars, pathVars>>

SpecLog == InitLog /\ [][NextLog]_vars

Kinds(hs) == [i \in DOMAIN hs |-> hs[i].kind]
OwnLines(name, lines) ==
    LET Own(h) == \E i \in DOMAIN handlers[name] : handlers[name][i].id = h.id
    IN  SelectSeq(lines, Own)

\* C6: however many wrappers were built for a name, with whatever levels, the
\* named logger carries exactly one file handler and one console handler, and
\* a single info call makes no handler emit twice and draws at most two lines
\* from the logger's own handlers.
C6_HandlersAttachedOnce ==
    /\ \A n \in LoggerNames :
          built[n] >= 1 => Kinds(handlers[n]) = <<"file", "console">>
    /\ (emitted.levelno = INFO)
       => /\ \A i, j \in DOMAIN emitted.lines :
                emitted.lines[i].id = emitted.lines[j].id => i = j
          /\ Len(OwnLines(emitted.name, emitted.lines)) <= 2

\* two wrappers for "app", then info: the file handler wrote its line
C6_Witness ==
    /\ built["app"] >= 2
    /\ emitted.name = "app" /\ emitted.levelno = INFO
    /\ \E i \in DOMAIN emitted.lines : emitted.lines[i].kind = "file"

\* --------------------------------------------------------------- PathSetup
Range(seq) == { seq[i] : i \in DOMAIN seq }
dirname(path) == SubSeq(path, 1, Len(path) - 1)

\* the helper with the `not in sys.path` test left out
add_project_root_always_inserts(path) ==
    LET current_dir == dirname(ModuleFile)
        project_root == dirname(current_dir)
    IN  <<project_root>> \o path

\* PathSetup.add_project_root_to_sys_path(): the new sys.path
add_project_root_to_sys_path(path) ==
    LET current_dir == dirname(ModuleFile)
        project_root == dirname(current_dir)
    IN  IF project_root \notin Range(path)
        THEN <<project_root>> \o path
        ELSE path

AddProjectRoot ==
    /\ pathOps < MaxPathOps
    /\ pathOps' = pathOps + 1
    /\ calls' = calls + 1
    /\ sys_path' = add_project_root_to_sys_path(sys_path)
    /\ UNCHANGED rootAbsent0

\* other start-up code puts a directory of its own in front of sys.path
ForeignInsert(d) ==
    /\ pathOps < MaxPathOps
    /\ pathOps' = pathOps + 1
    /\ sys_path' = <<d>> \o sys_path
    /\ UNCHANGED <<calls, rootAbsent0>>

ProjectRoot == dirname(dirname(ModuleFile))

RECURSIVE SeqsUpTo(_)
SeqsUpTo(n) ==
    IF n = 0 THEN { <<>> }
    ELSE SeqsUpTo(n - 1)
           \cup { <<d>> \o q : d \in Dirs,
                               q \in { r \in SeqsUpTo(n - 1) : Len(r) = n - 1 } }

InitPath ==
    /\ IdleEnv
    /\ environ = EmptyVars /\ environ0 = environ
    /\ files = [p \in Paths |-> [kind |-> "absent", vars |-> EmptyVars]]
    /\ IdleThreads /\ IdleLog
    /\ sys_path \in SeqsUpTo(MaxPathLen)
    /\ rootAbsent0 = (ProjectRoot \notin Range(sys_path))
    /\ calls = 0 /\ pathOps = 0

NextPath ==
    \/ AddProjectRoot /\ UNCHANGED <<envVars, thrVars, logVars>>
    \/ \E d \in Dirs \ {ProjectRoot} :
          ForeignInsert(d) /\ UNCHANGED <<envVars, thrVars, logVars>>

SpecPath == InitPath /\ [][NextPath]_vars

Occurrences(d, path) == Cardinality({ i \in DOMAIN path : path[i] = d })

\* C7: when the project root is not on sys.path, the first call puts it at
\* index 0; every call after the first leaves sys.path as it is; so from a
\* path without the root, any number of calls leaves the root on it exactly
\* once.
C7_Idempotent ==
    /\ []((rootAbsent0 /\ calls >= 1) => Occurrences(ProjectRoot, sys_path) = 1)
    /\ [][(calls' = calls + 1 /\ ProjectRoot \notin Range(sys_path))
            => sys_path' = <<ProjectRoot>> \o sys_path]_vars
    /\ [][(calls' = calls + 1 /\ calls >= 1) => sys_path' = sys_path]_vars

\* the root was absent, the helper ran twice, and the root is there once
C7_Witness ==
    /\ rootAbsent0 /\ calls >= 2
    /\ Occurrences(ProjectRoot, sys_path) = 1
    /\ Len(sys_path) >= 2

====
